---- MODULE Spec2Model ----
(***************************************************************************)
(* CSV ingest -> validate -> stage -> upsert pipeline of the metrics app   *)
(* (backend/metrics/views.py, management/commands/load_sample_data.py).    *)
(*                                                                         *)
(* Text is a sequence of one-character strings.  Parsed floats are         *)
(* integers (the modelled inputs carry no fraction), with NaN for Python's *)
(* float("nan") and None for Python's None.  Dates are y*10000+m*100+d.    *)
(* A table is the sequence of its rows in primary-key (insertion) order.   *)
(***************************************************************************)
EXTENDS Integers, Sequences, FiniteSets, TLC

VARIABLES
    backend,      \* database engine of the deployment, fixed at start
    staging,      \* committed rows of staging_measurements
    meas,         \* committed rows of measurements
    lastFile,     \* the file of the most recent import request (its place
                  \* in FileCatalog; 0: none yet)
    resp,         \* the response of the most recent import request
    lastFault,    \* where a storage failure struck that request, if anywhere
    measBefore,   \* measurements as they were before the most recent import
    repeated,     \* the most recent import repeated the file of the one before
    scenarioB,    \* progress of the two-import scenario from the empty table
    upload,       \* the upload of the most recent import request, as far as
                  \* the request is judged by it: has it a file, is it UTF-8,
                  \* which of the required columns has its header
    stamps,       \* created_at and updated_at of each measurement, by key:
                  \* the time of the most recent import request ("latest")
                  \* or of one before it ("earlier")
    report,       \* the response of the read request, while it is the most
                  \* recent request (NoReport otherwise)
    stagingIds,   \* primary keys of the staging rows, tracked where
                  \* transactions overlap
    origin,       \* the tables as they were when the overlapping imports began
    txn,          \* per importer: its request and open transaction
    writeLog,     \* the measurement rows written by the overlapping
                  \* transactions, in the order the upserts wrote them
    commits,      \* the importers in the order their transactions committed
    readLog       \* what the read endpoints last returned for each table

vars == <<backend, staging, meas, lastFile, resp, lastFault, measBefore, repeated,
          scenarioB, upload, stamps, report, stagingIds, origin, txn, writeLog, commits, readLog>>

seqVars == <<lastFile, resp, lastFault, measBefore, repeated, scenarioB, upload, stamps,
             report>>

concVars == <<stagingIds, origin, txn, writeLog, commits, readLog>>

----------------------------------------------------------------------------
(* Python values *)

None == -1000000
NaN == 1000000
NoneStr == <<"<None>">>

TEMP_MIN_C == -60
TEMP_MAX_C == 60
PRECIP_MIN_MM == 0
PRECIP_MAX_MM == 500

\* Python float comparison: every ordered comparison with nan is False.
FloatLt(a, b) == a # NaN /\ b # NaN /\ a < b
FloatGt(a, b) == a # NaN /\ b # NaN /\ a > b

----------------------------------------------------------------------------
(* str.strip, float(), datetime.strptime(value, "%Y-%m-%d") *)

RECURSIVE LStrip(_)
LStrip(s) == IF s # <<>> /\ Head(s) = " " THEN LStrip(Tail(s)) ELSE s

RECURSIVE RStrip(_)
RStrip(s) ==
    IF s # <<>> /\ s[Len(s)] = " " THEN RStrip(SubSeq(s, 1, Len(s) - 1)) ELSE s

Strip(s) == RStrip(LStrip(s))

Digits == {"0", "1", "2", "3", "4", "5", "6", "7", "8", "9"}

DigitVal(c) ==
    CASE c = "0" -> 0 [] c = "1" -> 1 [] c = "2" -> 2 [] c = "3" -> 3
      [] c = "4" -> 4 [] c = "5" -> 5 [] c = "6" -> 6 [] c = "7" -> 7
      [] c = "8" -> 8 [] c = "9" -> 9

AllDigits(s) == Len(s) > 0 /\ \A i \in 1..Len(s) : s[i] \in Digits

RECURSIVE DigitsToNat(_)
DigitsToNat(s) ==
    IF s = <<>> THEN 0
    ELSE 10 * DigitsToNat(SubSeq(s, 1, Len(s) - 1)) + DigitVal(s[Len(s)])

\* float(text) for the texts the model feeds it: an optional sign and
\* digits, or "nan"; anything else raises ValueError (None here).
PyFloat(s) ==
    LET body == IF s # <<>> /\ Head(s) \in {"-", "+"} THEN Tail(s) ELSE s
        neg  == s # <<>> /\ Head(s) = "-"
    IN  IF body = <<"n", "a", "n">> THEN NaN
        ELSE IF AllDigits(body)
             THEN (IF neg THEN 0 - DigitsToNat(body) ELSE DigitsToNat(body))
             ELSE None

_parse_float(value) ==
    IF value = NoneStr THEN None
    ELSE LET v == Strip(value)
         IN  IF v = <<>> THEN None ELSE PyFloat(v)

\* Positions of "-" in s.
Dashes(s) == {i \in 1..Len(s) : s[i] = "-"}

DaysInMonth(y, m) ==
    IF m \in {4, 6, 9, 11} THEN 30
    ELSE IF m = 2
         THEN (IF (y % 4 = 0 /\ y % 100 # 0) \/ y % 400 = 0 THEN 29 ELSE 28)
         ELSE 31

\* strptime(text, "%Y-%m-%d").date(): four digits, one or two digits, one
\* or two digits, a real calendar day; anything else raises ValueError.
StrpDate(s) ==
    IF Cardinality(Dashes(s)) # 2 THEN None
    ELSE LET i == CHOOSE a \in Dashes(s) : \A b \in Dashes(s) : a <= b
             j == CHOOSE a \in Dashes(s) : \A b \in Dashes(s) : a >= b
             ys == SubSeq(s, 1, i - 1)
             ms == SubSeq(s, i + 1, j - 1)
             ds == SubSeq(s, j + 1, Len(s))
         IN  IF ~(AllDigits(ys) /\ Len(ys) = 4 /\ AllDigits(ms) /\ Len(ms) <= 2
                  /\ AllDigits(ds) /\ Len(ds) <= 2)
             THEN None
             ELSE LET y == DigitsToNat(ys)
                      m == DigitsToNat(ms)
                      d == DigitsToNat(ds)
                  IN  IF y >= 1 /\ m \in 1..12 /\ d >= 1 /\ d <= DaysInMonth(y, m)
                      THEN y * 10000 + m * 100 + d
                      ELSE None

_parse_date(value) ==
    IF value = NoneStr THEN None
    ELSE LET v == Strip(value)
         IN  IF v = <<>> THEN None ELSE StrpDate(v)

\* (raw.get("station_id") or "").strip() or None
ParseStation(value) ==
    LET v == Strip(IF value = NoneStr THEN <<>> ELSE value)
    IN  IF v = <<>> THEN NoneStr ELSE v

----------------------------------------------------------------------------
(* Row validation *)

ValidateErrors(date, station_id, temp_c, precip_mm) ==
    (IF date = None THEN {"invalid_date"} ELSE {})
    \cup (IF station_id = NoneStr \/ Strip(station_id) = <<>>
          THEN {"missing_station_id"} ELSE {})
    \cup (IF temp_c = None THEN {"invalid_temp_c"}
          ELSE IF FloatLt(temp_c, TEMP_MIN_C) \/ FloatGt(temp_c, TEMP_MAX_C)
               THEN {"temp_c_out_of_range"} ELSE {})
    \cup (IF precip_mm = None THEN {"invalid_precip_mm"}
          ELSE IF FloatLt(precip_mm, PRECIP_MIN_MM) \/ FloatGt(precip_mm, PRECIP_MAX_MM)
               THEN {"precip_mm_out_of_range"} ELSE {})

\* Variant: the range checks are dropped.
_validate_row_NoRange(date, station_id, temp_c, precip_mm) ==
    /\ date # None
    /\ station_id # NoneStr /\ Strip(station_id) # <<>>
    /\ temp_c # None
    /\ precip_mm # None

_validate_row(date, station_id, temp_c, precip_mm) ==
    ValidateErrors(date, station_id, temp_c, precip_mm) = {}

----------------------------------------------------------------------------
(* Uploaded files: a header with the four columns and data rows of raw cells *)

Txt_0101 == <<"2", "0", "2", "6", "-", "0", "1", "-", "0", "1">>
Txt_0102 == <<"2", "0", "2", "6", "-", "0", "1", "-", "0", "2">>
Txt_BadDate == <<"b", "a", "d", "-", "d", "a", "t", "e">>
Txt_StationA == <<"S", "T", "A", "T", "I", "O", "N", "_", "A">>
Txt_StationAPadded == <<" ">> \o Txt_StationA \o <<" ">>

RawRow(d, s, t, p) == [date |-> d, station_id |-> s, temp_c |-> t, precip_mm |-> p]

\* Rows that files combine freely.
CoreRows ==
    { RawRow(Txt_0101, Txt_StationA, <<"1", "0">>, <<"0">>),
      RawRow(Txt_0101, Txt_StationA, <<"9", "9">>, <<"5">>),
      RawRow(Txt_0101, Txt_StationAPadded, <<"-", "6", "0">>, <<"5">>),
      RawRow(Txt_0102, Txt_StationA, <<"6", "0">>, <<"5", "0", "0">>) }

\* Rows that each break one more rule; they come alone or after a valid row.
EdgeRows ==
    { RawRow(Txt_BadDate, Txt_StationA, <<"1", "0">>, <<"0">>),
      RawRow(Txt_0102, <<" ", " ">>, <<"1", "0">>, <<"0">>),
      RawRow(Txt_0102, Txt_StationA, <<"1", "0">>, <<"5", "0", "1">>),
      RawRow(Txt_0102, Txt_StationA, <<"1", "0">>, <<"-", "1">>),
      RawRow(Txt_0102, Txt_StationA, <<"-", "6", "1">>, <<"0">>),
      RawRow(Txt_0102, Txt_StationA, <<"6", "1">>, <<"0">>),
      RawRow(Txt_0102, Txt_StationA, <<" ">>, <<"0">>),
      RawRow(Txt_0102, Txt_StationA, <<"1", "0">>, NoneStr),
      RawRow(Txt_0101, Txt_StationA, <<"n", "a", "n">>, <<"0">>) }

MaxRows == 2

SeqsUpTo(S, n) == UNION {[1..k -> S] : k \in 0..n}

FileB1 == <<RawRow(Txt_0101, Txt_StationA, <<"1", "0">>, <<"0">>)>>
FileB2 == <<RawRow(Txt_0101, Txt_StationA, <<"9", "9">>, <<"5">>)>>

Files ==
    SeqsUpTo(CoreRows, MaxRows)
    \cup {<<e>> : e \in EdgeRows}
    \cup {FileB1 \o <<e>> : e \in EdgeRows}

\* Files of the imports that overlap: two keys, each with two values, in
\* either order, and an invalid row.
ConcFileA ==
    <<RawRow(Txt_0101, Txt_StationA, <<"1", "0">>, <<"0">>),
      RawRow(Txt_0102, Txt_StationA, <<"6", "0">>, <<"5", "0", "0">>)>>

ConcFileB ==
    <<RawRow(Txt_0102, Txt_StationA, <<"2", "0">>, <<"7">>),
      RawRow(Txt_0101, Txt_StationAPadded, <<"-", "6", "0">>, <<"5">>)>>

ConcFileC ==
    <<RawRow(Txt_BadDate, Txt_StationA, <<"1", "0">>, <<"0">>),
      RawRow(Txt_0101, Txt_StationA, <<"3", "0">>, <<"1">>)>>

ConcFileD ==
    <<RawRow(Txt_0101, Txt_StationA, <<"1", "0">>, <<"0">>),
      RawRow(Txt_0101, Txt_StationA, <<"3", "0">>, <<"1">>)>>

ConcFiles == {ConcFileA, ConcFileB, ConcFileC, ConcFileD}

\* Files whose import the quality report is read after: every rule broken
\* once, alone and after a valid row, and one key staged twice.
FileDup ==
    <<RawRow(Txt_0101, Txt_StationA, <<"1", "0">>, <<"0">>),
      RawRow(Txt_0101, Txt_StationA, <<"9", "9">>, <<"5">>)>>

FileDupNull == FileDup \o <<RawRow(Txt_0102, <<" ", " ">>, <<" ">>, <<"0">>)>>

QualityFiles ==
    {<<>>, FileB1, FileDup, FileDupNull}
    \cup {<<e>> : e \in EdgeRows}
    \cup {FileB1 \o <<e>> : e \in EdgeRows}

\* Files whose import the summary is read after: three days of one station
\* and a rejected row of another, rows of two stations, a nan.
Txt_0103 == <<"2", "0", "2", "6", "-", "0", "1", "-", "0", "3">>
Txt_StationB == <<"S", "T", "A", "T", "I", "O", "N", "_", "B">>

FileC ==
    <<RawRow(Txt_0101, Txt_StationA, <<"1", "0">>, <<"1">>),
      RawRow(Txt_0102, Txt_StationA, <<"2", "0">>, <<"2">>),
      RawRow(Txt_0103, Txt_StationA, <<"3", "0">>, <<"3">>),
      RawRow(Txt_0101, Txt_StationB, <<"9", "9", "9">>, <<"0">>)>>

FileTwoStations ==
    <<RawRow(Txt_0102, Txt_StationB, <<"2", "0">>, <<"7">>),
      RawRow(Txt_0102, Txt_StationA, <<"-", "1">>, <<"0">>)>>

FileNan == <<RawRow(Txt_0101, Txt_StationA, <<"n", "a", "n">>, <<"0">>)>>

SummaryFiles == {FileC, FileTwoStations, FileNan}

----------------------------------------------------------------------------
(* The import: parse and validate every data row *)

Row(d, s, t, p) == [date |-> d, station_id |-> s, temp_c |-> t, precip_mm |-> p]

ParseRow(raw) ==
    Row(_parse_date(raw.date), ParseStation(raw.station_id),
        _parse_float(raw.temp_c), _parse_float(raw.precip_mm))

IsValidRow(r) == _validate_row(r.date, r.station_id, r.temp_c, r.precip_mm)

\* Every file of the model, numbered; requests name a file by its number.
RECURSIVE SetToSeq(_)
SetToSeq(S) ==
    IF S = {} THEN <<>>
    ELSE LET x == CHOOSE y \in S : TRUE IN <<x>> \o SetToSeq(S \ {x})

\* The files of k core rows, for k = 0..n, then every other file.
RECURSIVE CoreCatalog(_)
CoreCatalog(n) ==
    IF n < 0 THEN <<>> ELSE CoreCatalog(n - 1) \o SetToSeq([1..n -> CoreRows])

FileCatalog ==
    CoreCatalog(MaxRows)
    \o SetToSeq((Files \cup ConcFiles \cup QualityFiles \cup SummaryFiles)
                \ SeqsUpTo(CoreRows, MaxRows))

FileId(f) == CHOOSE n \in DOMAIN FileCatalog : FileCatalog[n] = f

FileIds == {FileId(f) : f \in Files}

ConcFileIds == {FileId(f) : f \in ConcFiles}

QualityFileIds == {FileId(f) : f \in QualityFiles}

SummaryFileIds == {FileId(f) : f \in SummaryFiles}

\* The loop over the reader, computed once per file of the model.
ParsedFiles ==
    [n \in DOMAIN FileCatalog |->
        LET rows == [i \in 1..Len(FileCatalog[n]) |-> ParseRow(FileCatalog[n][i])]
        IN  [staging_rows |-> rows, valid_clean_rows |-> SelectSeq(rows, IsValidRow)]]
    @@ <<>>

\* staging_rows: one StagingMeasurement per data row, in file order.
StagingRows(file) == ParsedFiles[file].staging_rows

\* valid_clean_rows / valid_rows: one Measurement per valid data row.
ValidRows(file) == ParsedFiles[file].valid_clean_rows

Key(r) == <<r.station_id, r.date>>

----------------------------------------------------------------------------
(* The database: statements of the import transaction *)

Backends == {"sqlite", "postgresql"}

\* Variant: the staging table is never truncated.
DeleteAll_Keep(table) == table

\* StagingMeasurement.objects.all().delete()
DeleteAll(table) == <<>>

\* StagingMeasurement.objects.bulk_create(staging_rows, batch_size=2000)
BulkCreate(table, rows) == table \o rows

batch_size == 2000

BatchOf(i) == (i - 1) \div batch_size

HasKey(table, k) == \E i \in 1..Len(table) : Key(table[i]) = k

\* Variant: a plain INSERT, no conflict handling.
UpsertRow_InsertOnly(table, r) == Append(table, r)

\* Variant: ignore_conflicts=True (ON CONFLICT DO NOTHING).
UpsertRow_IgnoreConflicts(table, r) ==
    IF HasKey(table, Key(r)) THEN table ELSE Append(table, r)

\* INSERT ... ON CONFLICT (station_id, date) DO UPDATE SET temp_c, precip_mm
\* for one row: update_fields are the only columns an existing row changes.
UpsertRow(table, r) ==
    IF HasKey(table, Key(r))
    THEN [i \in 1..Len(table) |->
            IF Key(table[i]) = Key(r)
            THEN [table[i] EXCEPT !.temp_c = r.temp_c, !.precip_mm = r.precip_mm]
            ELSE table[i]]
    ELSE Append(table, r)

RECURSIVE UpsertRows(_, _)
UpsertRows(table, rows) ==
    IF rows = <<>> THEN table
    ELSE UpsertRows(UpsertRow(table, Head(rows)), Tail(rows))

\* PostgreSQL refuses one INSERT ... ON CONFLICT DO UPDATE statement (one
\* batch) that proposes the same key twice ("command cannot affect row a
\* second time"); SQLite applies the rows one after the other.
UpsertRaises(db, rows) ==
    /\ db = "postgresql"
    /\ \E i, j \in 1..Len(rows) :
          i < j /\ BatchOf(i) = BatchOf(j) /\ Key(rows[i]) = Key(rows[j])

\* Variant: the table is rebuilt from the rows of the file.
BulkUpsert_Replace(table, rows) == UpsertRows(<<>>, rows)

\* Measurement.objects.bulk_create(valid_clean_rows, update_conflicts=True,
\*     unique_fields=["station_id", "date"], update_fields=["temp_c", "precip_mm"])
BulkUpsert(table, rows) == UpsertRows(table, rows)

\* The time passes: no stamp is of the request that now arrives.
Aged(st) == [k \in DOMAIN st |-> [created_at |-> "earlier", updated_at |-> "earlier"]]

\* The columns the upsert sets on a conflict.
update_fields == {"temp_c", "precip_mm"}

\* created_at (auto_now_add) and updated_at (auto_now) of the row the
\* upsert writes: both are set when the row is inserted; on a conflict the
\* statement sets the update_fields and nothing else.
StampRow(st, r) ==
    IF Key(r) \in DOMAIN st
    THEN [st EXCEPT ![Key(r)].updated_at =
              IF "updated_at" \in update_fields THEN "latest" ELSE @]
    ELSE (Key(r) :> [created_at |-> "latest", updated_at |-> "latest"]) @@ st

RECURSIVE StampRows(_, _)
StampRows(st, rows) ==
    IF rows = <<>> THEN st ELSE StampRows(StampRow(st, Head(rows)), Tail(rows))

\* Variant: no atomic block around the statements.
InAtomicBlock_Autocommit == FALSE

\* with transaction.atomic(): the statements commit together or not at all.
\* Outside such a block every statement commits on its own (autocommit).
InAtomicBlock == TRUE

----------------------------------------------------------------------------
(* POST /api/import/ served alone: one request from upload to response *)

\* Where a storage failure strikes the transaction, if anywhere.
Faults == {"none", "delete", "bulk_create_staging", "bulk_create_measurements"}

\* Variant: count the distinct keys written.
RowsUpserted_DistinctKeys(valid_clean_rows) ==
    Cardinality({Key(valid_clean_rows[i]) : i \in 1..Len(valid_clean_rows)})

\* rows_upserted = len(valid_clean_rows)
RowsUpserted(valid_clean_rows) == Len(valid_clean_rows)

Response500 ==
    [status |-> 500, rows_in_file |-> 0, rows_valid |-> 0, rows_invalid |-> 0,
     rows_upserted |-> 0]

NoReport == [kind |-> "none", status |-> 0]

required == {"date", "station_id", "temp_c", "precip_mm"}

\* An upload with the file field, UTF-8 text and the four columns.
WellFormed == [has_file |-> TRUE, utf8 |-> TRUE, columns |-> required]

NoResponse ==
    [status |-> 0, rows_in_file |-> 0, rows_valid |-> 0, rows_invalid |-> 0,
     rows_upserted |-> 0]

\* The staging table after the statements that ran before the exception
\* (if any) left the block.
StagingAfter(table, staging_rows, fault) ==
    IF fault = "delete" THEN table
    ELSE IF fault = "bulk_create_staging" THEN DeleteAll(table)
    ELSE IF staging_rows # <<>> THEN BulkCreate(DeleteAll(table), staging_rows)
    ELSE DeleteAll(table)

ImportRaises(db, valid_clean_rows, fault) ==
    \/ fault # "none"
    \/ valid_clean_rows # <<>> /\ UpsertRaises(db, valid_clean_rows)

MeasAfter(table, db, valid_clean_rows, fault) ==
    IF ImportRaises(db, valid_clean_rows, fault) \/ valid_clean_rows = <<>> THEN table
    ELSE BulkUpsert(table, valid_clean_rows)

Response200(rows_in_file, valid_clean_rows) ==
    [status |-> 200,
     rows_in_file |-> rows_in_file,
     rows_valid |-> Len(valid_clean_rows),
     rows_invalid |-> rows_in_file - Len(valid_clean_rows),
     rows_upserted |-> IF valid_clean_rows # <<>> THEN RowsUpserted(valid_clean_rows) ELSE 0]

FileB1Id == FileId(FileB1)

FileB2Id == FileId(FileB2)

ScenarioBNext(file, ok) ==
    IF ~ok THEN "off"
    ELSE IF scenarioB = "start" /\ file = FileB1Id THEN "first"
    ELSE IF scenarioB = "first" /\ file = FileB2Id THEN "second"
    ELSE "off"

import_csv(file, fault) ==
    LET parsed == ParsedFiles[file]
        staging_rows == parsed.staging_rows
        valid_clean_rows == parsed.valid_clean_rows
        raises == ImportRaises(backend, valid_clean_rows, fault)
        rollback == raises /\ InAtomicBlock
    IN  /\ staging' = IF rollback THEN staging
                      ELSE StagingAfter(staging, staging_rows, fault)
        /\ meas' = IF rollback THEN meas
                   ELSE MeasAfter(meas, backend, valid_clean_rows, fault)
        /\ resp' = IF raises THEN Response500
                   ELSE Response200(Len(staging_rows), valid_clean_rows)
        /\ lastFile' = file
        /\ lastFault' = fault
        /\ measBefore' = meas
        /\ repeated' = (resp.status # 0 /\ file = lastFile)
        /\ scenarioB' = ScenarioBNext(file, ~raises)
        /\ stamps' = IF raises THEN Aged(stamps)
                     ELSE StampRows(Aged(stamps), valid_clean_rows)
        /\ report' = NoReport
        /\ UNCHANGED <<backend, concVars>>

Import == \E file \in FileIds : import_csv(file, "none") /\ upload' = WellFormed

\* reader.fieldnames of a file without a header line
NoHeader == {}

\* Variant: one of the required columns is enough.
HasRequiredColumns_Any(fieldnames) ==
    fieldnames # NoHeader /\ required \cap fieldnames # {}

\* not (reader.fieldnames is None or not required.issubset(set(reader.fieldnames)))
HasRequiredColumns(fieldnames) ==
    fieldnames # NoHeader /\ required \subseteq fieldnames

\* Why the request is turned away before any row is read, if it is.
Rejection(up) ==
    IF ~up.has_file THEN "MissingInputError"
    ELSE IF ~up.utf8 THEN "DecodeError"
    ELSE IF ~HasRequiredColumns(up.fieldnames) THEN "SchemaError"
    ELSE "none"

Response400(error) == [status |-> 400, error |-> error]

\* What the request is judged by: extra columns are ignored, and nothing
\* is read of an upload that is missing or does not decode.
Judged(up) ==
    [has_file |-> up.has_file,
     utf8 |-> up.has_file /\ up.utf8,
     columns |-> IF up.has_file /\ up.utf8 THEN up.fieldnames \cap required ELSE {}]

\* The request is answered 400 with an error; no statement is run.
reject_upload(up) ==
    /\ Rejection(up) # "none"
    /\ resp' = Response400(Rejection(up))
    /\ upload' = Judged(up)
    /\ lastFile' = 0
    /\ lastFault' = "none"
    /\ measBefore' = meas
    /\ repeated' = FALSE
    /\ scenarioB' = "off"
    /\ stamps' = Aged(stamps)
    /\ report' = NoReport
    /\ UNCHANGED <<backend, staging, meas, concVars>>

Headers ==
    {required, required \cup {"note"}, required \ {"temp_c"}, {"date", "note"}, NoHeader}

Uploads == [has_file : BOOLEAN, utf8 : BOOLEAN, fieldnames : Headers]

\* The files a storage failure is tried on.
FaultFileIds == {FileId(f) : f \in SeqsUpTo(CoreRows, MaxRows - 1)}

ImportFails ==
    \E file \in FaultFileIds, fault \in Faults \ {"none"} :
        (fault = "bulk_create_staging" => StagingRows(file) # <<>>)
        /\ (fault = "bulk_create_measurements" => ValidRows(file) # <<>>)
        /\ import_csv(file, fault)
        /\ upload' = WellFormed

Init ==
    /\ backend \in Backends
    /\ staging = <<>>
    /\ meas = <<>>
    /\ lastFile = 0
    /\ resp = NoResponse
    /\ lastFault = "none"
    /\ measBefore = <<>>
    /\ repeated = FALSE
    /\ scenarioB = "start"
    /\ upload = WellFormed
    /\ stamps = <<>>
    /\ report = NoReport
    /\ stagingIds = <<>>
    /\ origin = [staging |-> <<>>, meas |-> <<>>]
    /\ txn = <<>>
    /\ writeLog = <<>>
    /\ commits = <<>>
    /\ readLog = [staging |-> <<>>, meas |-> <<>>]

Next == Import

Spec == Init /\ [][Next]_vars

\* Requests served alone, some of them hit by a storage failure.
ImportSmall ==
    \E file \in FaultFileIds : import_csv(file, "none") /\ upload' = WellFormed

NextFault == ImportSmall \/ ImportFails

SpecFault == Init /\ [][NextFault]_vars

\* Requests with any upload: turned away, or imported.
PostImport ==
    \E up \in Uploads :
        IF Rejection(up) = "none"
        THEN \E file \in FaultFileIds : import_csv(file, "none") /\ upload' = Judged(up)
        ELSE reject_upload(up)

NextUpload == PostImport

SpecUpload == Init /\ [][NextUpload]_vars

----------------------------------------------------------------------------
(* GET /api/quality/: the quality report of one table.  The queries see a  *)
(* stored float as the engine holds it: SQLite stores a NaN as NULL,       *)
(* PostgreSQL stores it and orders it above every number.                  *)

DbValue(db, x) == IF db = "sqlite" /\ x = NaN THEN None ELSE x

\* filter(<field>__isnull=True)
IsNullIn(db, r, field_name) ==
    IF field_name = "station_id" THEN r.station_id = NoneStr
    ELSE IF field_name = "date" THEN r.date = None
    ELSE DbValue(db, r[field_name]) = None

\* filter(<field>__lt=bound), filter(<field>__gt=bound) on a float column
SqlLt(db, x, bound) ==
    LET v == DbValue(db, x) IN v # None /\ v # NaN /\ v < bound

SqlGt(db, x, bound) ==
    LET v == DbValue(db, x) IN v # None /\ (v = NaN \/ v > bound)

\* qs.filter(<field>__isnull=True).count()
_null_count(db, qs, field_name) ==
    LET isnull(r) == IsNullIn(db, r, field_name) IN Len(SelectSeq(qs, isnull))

\* values("station_id", "date").annotate(n=Count("id")).filter(n__gt=1),
\* then the sum of n - 1 over the groups.
RECURSIVE SumExtra(_, _)
SumExtra(groups, qs) ==
    IF groups = {} THEN 0
    ELSE LET k == CHOOSE g \in groups : TRUE
             inGroup(r) == Key(r) = k
             n == Len(SelectSeq(qs, inGroup))
         IN  (IF n > 1 THEN n - 1 ELSE 0) + SumExtra(groups \ {k}, qs)

\* Variant: every row of a repeated key is counted.
_duplicate_rows_count_AllRows(qs) ==
    LET repeats(r) == LET same(q) == Key(q) = Key(r) IN Len(SelectSeq(qs, same)) > 1
    IN  Len(SelectSeq(qs, repeats))

_duplicate_rows_count(qs) == SumExtra({Key(qs[i]) : i \in 1..Len(qs)}, qs)

\* The three counts of the report, with the literals of the queries.
_out_of_range_counts(db, qs) ==
    LET temp_lt(r) == ~IsNullIn(db, r, "temp_c") /\ SqlLt(db, r.temp_c, -90)
        temp_gt(r) == ~IsNullIn(db, r, "temp_c") /\ SqlGt(db, r.temp_c, 60)
        precip_lt(r) == ~IsNullIn(db, r, "precip_mm") /\ SqlLt(db, r.precip_mm, 0)
    IN  [n \in {"temp_c_lt_-90", "temp_c_gt_60", "precip_mm_lt_0"} |->
            IF n = "temp_c_lt_-90" THEN Len(SelectSeq(qs, temp_lt))
            ELSE IF n = "temp_c_gt_60" THEN Len(SelectSeq(qs, temp_gt))
            ELSE Len(SelectSeq(qs, precip_lt))]

RECURSIVE Gcd(_, _)
Gcd(a, b) == IF b = 0 THEN a ELSE Gcd(b, a % b)

\* The float n / d, kept exact: the fraction in lowest terms, d > 0.
Div(n, d) ==
    LET a == IF n < 0 THEN -n ELSE n
        g == Gcd(a, d)
    IN  IF n < 0 THEN <<-(a \div g), d \div g>> ELSE <<a \div g, d \div g>>

Zero == <<0, 1>>

\* The non-null values of a float column, as the engine holds them.
ColumnValues(db, qs, field_name) ==
    {DbValue(db, qs[i][field_name]) : i \in 1..Len(qs)} \ {None}

\* Min(<field>), Max(<field>): NULL over no value.
SqlMin(vals) ==
    IF vals = {} THEN None
    ELSE IF vals = {NaN} THEN NaN
    ELSE CHOOSE v \in vals \ {NaN} : \A w \in vals \ {NaN} : v <= w

SqlMax(vals) ==
    IF vals = {} THEN None
    ELSE IF NaN \in vals THEN NaN
    ELSE CHOOSE v \in vals : \A w \in vals : v >= w

Fields == {"date", "station_id", "temp_c", "precip_mm"}

quality_report_for_queryset(db, qs, fields_for_nulls) ==
    LET total == Len(qs)
        null_counts == [f \in fields_for_nulls |-> _null_count(db, qs, f)]
        null_rates == [f \in fields_for_nulls |->
                          IF total # 0 THEN Div(null_counts[f], total) ELSE Zero]
    IN  [total_rows |-> total,
         null_counts |-> null_counts,
         null_rates |-> null_rates,
         extra_duplicate_rows |-> _duplicate_rows_count(qs),
         min_max |-> [temp_c |-> [min |-> SqlMin(ColumnValues(db, qs, "temp_c")),
                                  max |-> SqlMax(ColumnValues(db, qs, "temp_c"))],
                      precip_mm |-> [min |-> SqlMin(ColumnValues(db, qs, "precip_mm")),
                                     max |-> SqlMax(ColumnValues(db, qs, "precip_mm"))]],
         out_of_range_counts |-> _out_of_range_counts(db, qs)]

\* The table query parameter: absent, or one of these texts.
TableParams == {"", "measurements", "staging", "stations"}

quality_report(param) ==
    LET table == IF param = "" THEN "measurements" ELSE param
    IN  /\ report' =
              IF table \notin {"measurements", "staging"}
              THEN [kind |-> "quality", status |-> 400]
              ELSE [kind |-> "quality", status |-> 200, table |-> table,
                    data |-> quality_report_for_queryset(
                                 backend, IF table = "staging" THEN staging ELSE meas,
                                 Fields)]
        /\ UNCHANGED <<backend, staging, meas, lastFile, resp, lastFault, measBefore,
                       repeated, scenarioB, upload, stamps, concVars>>

QualityReport == \E param \in TableParams : quality_report(param)

ImportQuality ==
    \E file \in QualityFileIds : import_csv(file, "none") /\ upload' = WellFormed

NextQuality == ImportQuality \/ QualityReport

SpecQuality == Init /\ [][NextQuality]_vars

----------------------------------------------------------------------------
(* GET /api/metrics/summary/?station_id=X&from=YYYY-MM-DD&to=YYYY-MM-DD *)

_parse_iso_date(value) ==
    IF value = NoneStr THEN None
    ELSE LET v == Strip(value)
         IN  IF v = <<>> THEN None ELSE StrpDate(v)

DigitChar(n) == <<"0", "1", "2", "3", "4", "5", "6", "7", "8", "9">>[n + 1]

\* The decimal digits of n, zero-padded to the given width.
RECURSIVE Padded(_, _)
Padded(n, width) ==
    IF width = 0 THEN <<>>
    ELSE Append(Padded(n \div 10, width - 1), DigitChar(n % 10))

\* date.isoformat()
isoformat(d) ==
    Padded(d \div 10000, 4) \o <<"-">> \o Padded((d \div 100) % 100, 2)
    \o <<"-">> \o Padded(d % 100, 2)

\* Variant: the window excludes its last day.
InWindow_OpenEnd(r, station_id, date_from, date_to) ==
    r.station_id = station_id /\ r.date >= date_from /\ r.date < date_to

\* filter(station_id=station_id, date__gte=date_from, date__lte=date_to)
InWindow(r, station_id, date_from, date_to) ==
    r.station_id = station_id /\ r.date >= date_from /\ r.date <= date_to

RECURSIVE SumValues(_)
SumValues(values) ==
    IF values = <<>> THEN 0 ELSE Head(values) + SumValues(Tail(values))

\* The non-null values of one float column of the rows, as the engine
\* holds them, row by row.
Column(db, qs, field_name) ==
    LET held(x) == x # None
    IN  SelectSeq([i \in 1..Len(qs) |-> DbValue(db, qs[i][field_name])], held)

HasNaN(values) == \E i \in 1..Len(values) : values[i] = NaN

\* Sum(<field>): NULL over no value, NaN once a NaN is among them.
SqlSum(values) ==
    IF values = <<>> THEN None
    ELSE IF HasNaN(values) THEN NaN
    ELSE SumValues(values)

\* Avg(<field>): a quotient; None and NaN are carried as <<None, 1>> and
\* <<NaN, 1>>.
SqlAvg(values) ==
    IF values = <<>> THEN <<None, 1>>
    ELSE IF HasNaN(values) THEN <<NaN, 1>>
    ELSE Div(SumValues(values), Len(values))

StationParams == {Txt_StationAPadded, Txt_StationB, NoneStr}

DateParams == {Txt_0101, Txt_0102, Txt_0103, Txt_BadDate}

\* The query parameters as the view reads them, computed once per text:
\* (request.GET.get("station_id") or "").strip(), _parse_iso_date(...).
ParsedParams ==
    [station_id |-> [p \in StationParams |-> Strip(IF p = NoneStr THEN <<>> ELSE p)],
     date |-> [p \in DateParams |->
                  [value |-> _parse_iso_date(p),
                   text |-> IF _parse_iso_date(p) = None THEN <<>>
                            ELSE isoformat(_parse_iso_date(p))] @@ <<>>] @@ <<>>]

BadRequest(kind, request) == [kind |-> kind, status |-> 400, request |-> request]

metrics_summary(station_param, from_param, to_param) ==
    LET request == [station_id |-> station_param, from |-> from_param, to |-> to_param]
        station_id == ParsedParams.station_id[station_param]
        date_from == ParsedParams.date[from_param].value
        date_to == ParsedParams.date[to_param].value
        inWindow(r) == InWindow(r, station_id, date_from, date_to)
        qs == SelectSeq(meas, inWindow)
    IN  /\ report' =
              IF station_id = <<>> THEN BadRequest("summary", request)
              ELSE IF date_from = None THEN BadRequest("summary", request)
              ELSE IF date_to = None THEN BadRequest("summary", request)
              ELSE IF date_from > date_to THEN BadRequest("summary", request)
              ELSE [kind |-> "summary", status |-> 200, request |-> request,
                    station_id |-> station_id,
                    from |-> ParsedParams.date[from_param].text,
                    to |-> ParsedParams.date[to_param].text,
                    days |-> Len(qs),
                    avg_temp_c |-> SqlAvg(Column(backend, qs, "temp_c")),
                    total_precip_mm |-> SqlSum(Column(backend, qs, "precip_mm"))]
        /\ UNCHANGED <<backend, staging, meas, lastFile, resp, lastFault, measBefore,
                       repeated, scenarioB, upload, stamps, concVars>>

MetricsSummary ==
    \E station_param \in StationParams, from_param \in DateParams, to_param \in DateParams :
        metrics_summary(station_param, from_param, to_param)

ImportSummary ==
    \E file \in SummaryFileIds : import_csv(file, "none") /\ upload' = WellFormed

NextSummary == ImportSummary \/ MetricsSummary

SpecSummary == Init /\ [][NextSummary]_vars

----------------------------------------------------------------------------
(* Two import requests whose transactions overlap, statement by statement. *)
(* PostgreSQL runs them READ COMMITTED (Django's default): a statement     *)
(* sees what was committed when it started, a row written by an open       *)
(* transaction is locked until that transaction ends, and a statement that *)
(* needs a locked row waits.  SQLite lets one transaction write at a time. *)

Importers == {"i1", "i2"}

IdleTxn ==
    [pc |-> "idle", file |-> 0, targets |-> {}, locked |-> {}, done |-> 0,
     applied |-> FALSE]

InTransaction(u) == txn[u].pc \in {"delete", "deleting", "create", "upsert", "commit"}

\* SQLite: the transaction has written and holds the database's write lock.
HoldsWriteLock(u) == txn[u].pc \in {"deleting", "create", "upsert", "commit"}

IdsOf(table_ids) == {table_ids[i] : i \in 1..Len(table_ids)}

\* Variant: written rows are not locked.
LockedKeys_None(u) == {}

\* Keys of measurements the transaction has written and keeps locked until
\* it ends.
LockedKeys(u) ==
    IF txn[u].pc \in {"upsert", "commit"}
    THEN {Key(ValidRows(txn[u].file)[i]) : i \in 1..txn[u].done}
    ELSE {}

\* Positions of the staging rows that survive a delete of the rows `gone`.
Survivors(gone) == SelectSeq([i \in 1..Len(stagingIds) |-> i],
                             LAMBDA i : stagingIds[i] \notin gone)

StagingWithout(gone) == [n \in 1..Len(Survivors(gone)) |-> staging[Survivors(gone)[n]]]

StagingIdsWithout(gone) ==
    [n \in 1..Len(Survivors(gone)) |-> stagingIds[Survivors(gone)[n]]]

NewIds(t, rows) == [i \in 1..Len(rows) |-> <<t, i>>]

AfterDelete(file) ==
    IF StagingRows(file) # <<>> THEN "create"
    ELSE IF ValidRows(file) # <<>> THEN "upsert" ELSE "commit"

AfterCreate(file) == IF ValidRows(file) # <<>> THEN "upsert" ELSE "commit"

\* The committed measurements: the rows written by the transactions in
\* `visible`, each write landing on what the writes before it left.
WrittenBy(log, visible) == SelectSeq(log, LAMBDA w : w.by \in visible)

RowsOf(log) == [i \in 1..Len(log) |-> log[i].row]

CommittedMeas(log, visible) == BulkUpsert(origin.meas, RowsOf(WrittenBy(log, visible)))

Applied(t) == {u \in Importers : txn[u].applied} \cup {t}

\* The request arrives: the file is read and parsed, the atomic block entered.
Begin(t) ==
    /\ txn[t].pc = "idle"
    /\ \E file \in ConcFileIds :
          txn' = [txn EXCEPT ![t] = [IdleTxn EXCEPT !.pc = "delete", !.file = file]]
    /\ UNCHANGED <<backend, staging, meas, seqVars, stagingIds, origin, writeLog,
                   commits, readLog>>

\* DELETE FROM staging_measurements starts: its snapshot fixes the rows it
\* will delete.
DeleteSnapshot(t) ==
    /\ txn[t].pc = "delete"
    /\ backend = "sqlite" => \A u \in Importers \ {t} : ~HoldsWriteLock(u)
    /\ txn' = [txn EXCEPT ![t].pc = "deleting", ![t].targets = IdsOf(stagingIds)]
    /\ UNCHANGED <<backend, staging, meas, seqVars, stagingIds, origin, writeLog,
                   commits, readLog>>

\* DELETE ends once no row of its snapshot is locked by another transaction;
\* rows that a committed transaction deleted meanwhile are skipped.
DeleteFinish(t) ==
    /\ txn[t].pc = "deleting"
    /\ \A u \in Importers \ {t} : InTransaction(u) => txn[u].locked \cap txn[t].targets = {}
    /\ LET gone == txn[t].targets \cap IdsOf(stagingIds)
       IN  IF InAtomicBlock
           THEN /\ txn' = [txn EXCEPT ![t].pc = AfterDelete(txn[t].file), ![t].locked = gone]
                /\ UNCHANGED <<staging, stagingIds>>
           ELSE /\ txn' = [txn EXCEPT ![t].pc = AfterDelete(txn[t].file)]
                /\ staging' = StagingWithout(gone)
                /\ stagingIds' = StagingIdsWithout(gone)
    /\ UNCHANGED <<backend, meas, seqVars, origin, writeLog, commits, readLog>>

\* INSERT INTO staging_measurements: nothing to wait for.
CreateStaging(t) ==
    /\ txn[t].pc = "create"
    /\ txn' = [txn EXCEPT ![t].pc = AfterCreate(txn[t].file)]
    /\ IF InAtomicBlock
       THEN UNCHANGED <<staging, stagingIds>>
       ELSE /\ staging' = BulkCreate(staging, StagingRows(txn[t].file))
            /\ stagingIds' = stagingIds \o NewIds(t, StagingRows(txn[t].file))
    /\ UNCHANGED <<backend, meas, seqVars, origin, writeLog, commits, readLog>>

NextRow(t) == ValidRows(txn[t].file)[txn[t].done + 1]

\* t's upsert waits for u: its next row's key is locked by u.
WaitsFor(t, u) ==
    /\ txn[t].pc = "upsert"
    /\ u # t
    /\ Key(NextRow(t)) \in LockedKeys(u)

\* INSERT ... ON CONFLICT DO UPDATE takes the next row of the statement: it
\* writes the row, inserted or updated, and locks it until the transaction
\* ends.
UpsertNextRow(t) ==
    /\ txn[t].pc = "upsert"
    /\ ~UpsertRaises(backend, ValidRows(txn[t].file))
    /\ \A u \in Importers : ~WaitsFor(t, u)
    /\ LET last == txn[t].done + 1 = Len(ValidRows(txn[t].file))
           autocommit == last /\ ~InAtomicBlock
       IN  /\ txn' = [txn EXCEPT ![t].done = @ + 1,
                                 ![t].pc = IF last THEN "commit" ELSE "upsert",
                                 ![t].applied = autocommit]
           /\ writeLog' = Append(writeLog, [by |-> t, row |-> NextRow(t)])
           /\ meas' = IF autocommit THEN CommittedMeas(writeLog', Applied(t)) ELSE meas
    /\ UNCHANGED <<backend, staging, seqVars, stagingIds, origin, commits, readLog>>

\* The exception leaves the atomic block: rollback, and the request ends 500.
Abort(t) ==
    /\ txn' = [txn EXCEPT ![t].pc = "failed", ![t].locked = {}, ![t].done = 0]
    /\ writeLog' = SelectSeq(writeLog, LAMBDA w : w.by # t)

\* PostgreSQL refuses the statement (the same key twice in one batch).
UpsertRejected(t) ==
    /\ txn[t].pc = "upsert"
    /\ UpsertRaises(backend, ValidRows(txn[t].file))
    /\ Abort(t)
    /\ UNCHANGED <<backend, staging, meas, seqVars, stagingIds, origin, commits, readLog>>

\* Two upserts wait for each other's keys: PostgreSQL detects the deadlock
\* and ends one of the two statements with an error.
DeadlockDetected(t) ==
    /\ \E u \in Importers : WaitsFor(t, u) /\ WaitsFor(u, t)
    /\ Abort(t)
    /\ UNCHANGED <<backend, staging, meas, seqVars, stagingIds, origin, commits, readLog>>

\* The atomic block is left normally: COMMIT, and the request ends 200.
Commit(t) ==
    /\ txn[t].pc = "commit"
    /\ txn' = [txn EXCEPT ![t].pc = "done", ![t].locked = {}, ![t].applied = TRUE]
    /\ commits' = Append(commits, t)
    /\ IF InAtomicBlock
       THEN /\ staging' = BulkCreate(StagingWithout(txn[t].locked), StagingRows(txn[t].file))
            /\ stagingIds' = StagingIdsWithout(txn[t].locked)
                                \o NewIds(t, StagingRows(txn[t].file))
            /\ meas' = CommittedMeas(writeLog, Applied(t))
       ELSE UNCHANGED <<staging, stagingIds, meas>>
    /\ UNCHANGED <<backend, seqVars, origin, writeLog, readLog>>

\* GET /api/quality/?table=staging: a query over what is committed.
ReadStaging ==
    /\ readLog' = [readLog EXCEPT !.staging = staging]
    /\ UNCHANGED <<backend, staging, meas, seqVars, stagingIds, origin, txn, writeLog,
                   commits>>

\* GET /api/metrics/daily/, /api/metrics/summary/, /api/quality/: a query
\* over the committed measurements.
ReadMeasurements ==
    /\ readLog' = [readLog EXCEPT !.meas = meas]
    /\ UNCHANGED <<backend, staging, meas, seqVars, stagingIds, origin, txn, writeLog,
                   commits>>

\* The tables hold what an earlier import, served alone, left.
InitConc ==
    /\ backend \in Backends
    /\ \E file \in {FileId(<<>>), FileId(ConcFileC)} :
          /\ staging = StagingRows(file)
          /\ stagingIds = NewIds("i0", StagingRows(file))
          /\ meas = BulkUpsert(<<>>, ValidRows(file))
    /\ origin = [staging |-> staging, meas |-> meas]
    /\ readLog = origin
    /\ txn = [t \in Importers |-> IdleTxn]
    /\ writeLog = <<>>
    /\ commits = <<>>
    /\ lastFile = 0
    /\ resp = NoResponse
    /\ lastFault = "none"
    /\ measBefore = <<>>
    /\ repeated = FALSE
    /\ scenarioB = "off"
    /\ upload = WellFormed
    /\ stamps = <<>>
    /\ report = NoReport

NextConc ==
    \/ \E t \in Importers :
          \/ Begin(t)
          \/ DeleteSnapshot(t)
          \/ DeleteFinish(t)
          \/ CreateStaging(t)
          \/ UpsertNextRow(t)
          \/ UpsertRejected(t)
          \/ DeadlockDetected(t)
          \/ Commit(t)
    \/ ReadStaging
    \/ ReadMeasurements

SpecConc == InitConc /\ [][NextConc]_vars

----------------------------------------------------------------------------
(* Properties of requests served alone (Spec) *)

LastRawFile == FileCatalog[lastFile]

LastValid == ValidRows(lastFile)

RowsWithKey(table, k) == {i \in 1..Len(table) : Key(table[i]) = k}

RowFor(table, k) == table[CHOOSE i \in 1..Len(table) : Key(table[i]) = k]

Values(r) == <<r.temp_c, r.precip_mm>>

\* The last row of `rows` with key k.
LastFor(rows, k) ==
    rows[CHOOSE i \in 1..Len(rows) :
            /\ Key(rows[i]) = k
            /\ \A j \in 1..Len(rows) : Key(rows[j]) = k => j <= i]

KeysOf(rows) == {Key(rows[i]) : i \in 1..Len(rows)}

\* C1: importing the file that was just imported leaves measurements as
\* the first of the two imports left them: no row added, no value changed.
C1_IdempotentUpsert == repeated => meas = measBefore

C1_Witness ==
    /\ repeated
    /\ resp.status = 200
    /\ resp.rows_upserted >= 2
    /\ Len(meas) >= 2

\* C2 as stated: a successful import with a valid row for an existing key
\* and other values leaves that row with the values of this valid row, and
\* the table with as many rows as before.
C2_Original ==
    resp.status = 200 =>
        \A i \in 1..Len(LastValid) :
            (/\ HasKey(measBefore, Key(LastValid[i]))
             /\ Values(RowFor(measBefore, Key(LastValid[i]))) # Values(LastValid[i]))
            => /\ Values(RowFor(meas, Key(LastValid[i]))) = Values(LastValid[i])
               /\ Len(meas) = Len(measBefore)

\* C2 amended: a successful import with a valid row for an existing key
\* leaves exactly one row for the key, holding the values of the file's
\* last valid row with that key; the table grows by the number of distinct
\* keys among the file's valid rows that it did not hold before.
C2_Overwrite ==
    resp.status = 200 =>
        /\ \A k \in KeysOf(LastValid) :
              HasKey(measBefore, k) =>
                  /\ Cardinality(RowsWithKey(meas, k)) = 1
                  /\ Values(RowFor(meas, k)) = Values(LastFor(LastValid, k))
        /\ Len(meas) = Len(measBefore)
                         + Cardinality(KeysOf(LastValid) \ KeysOf(measBefore))

C2_Witness ==
    /\ resp.status = 200
    /\ \E k \in KeysOf(LastValid) :
          /\ HasKey(measBefore, k)
          /\ Values(RowFor(measBefore, k)) # Values(LastFor(LastValid, k))
          /\ Values(RowFor(meas, k)) = Values(LastFor(LastValid, k))
    /\ Len(meas) = Len(measBefore)

StationA == Strip(Txt_StationA)

C4_StagingMirror ==
    resp.status = 200 =>
        /\ Len(staging) = Len(LastRawFile)
        /\ \A i \in 1..Len(LastRawFile) : staging[i] = ParseRow(LastRawFile[i])

C4_Witness ==
    /\ resp.status = 200
    /\ measBefore # <<>>
    /\ Len(staging) = 2
    /\ \E i \in 1..Len(staging) : ~IsValidRow(staging[i])
    /\ \E i \in 1..Len(staging) : IsValidRow(staging[i])

\* C5: a successful import reports the number of data rows, the number of
\* valid ones, their difference, and as rows_upserted every valid row
\* (repeated keys and existing keys included).
C5_ImportCounts ==
    resp.status = 200 =>
        /\ resp.rows_in_file = Len(LastRawFile)
        /\ resp.rows_valid =
              Cardinality({i \in 1..Len(LastRawFile) : IsValidRow(ParseRow(LastRawFile[i]))})
        /\ resp.rows_invalid = resp.rows_in_file - resp.rows_valid
        /\ resp.rows_upserted = resp.rows_valid

C5_Witness ==
    /\ resp.status = 200
    /\ resp.rows_upserted = 2
    /\ Cardinality(KeysOf(LastValid)) = 1
    /\ HasKey(measBefore, Key(LastValid[1]))

InRange(x, lo, hi) == x # NaN /\ lo <= x /\ x <= hi

\* The validity rule as the specification words it.
StatedValid(r) ==
    /\ r.date # None
    /\ r.station_id # NoneStr /\ Strip(r.station_id) # <<>>
    /\ r.temp_c # None /\ InRange(r.temp_c, -60, 60)
    /\ r.precip_mm # None /\ InRange(r.precip_mm, 0, 500)

\* C6: a parsed row counts as valid exactly when it meets the stated rule,
\* and every measurement meets the stated rule.
C6_OnlyValidRows ==
    /\ \A i \in 1..Len(staging) : IsValidRow(staging[i]) <=> StatedValid(staging[i])
    /\ \A i \in 1..Len(meas) : StatedValid(meas[i])

UniqueKeys(table) ==
    \A i, j \in 1..Len(table) : i # j => Key(table[i]) # Key(table[j])

\* Keys that two or more valid rows of the last file share.
RepeatedKeys ==
    {k \in KeysOf(LastValid) :
        Cardinality({i \in 1..Len(LastValid) : Key(LastValid[i]) = k}) >= 2}

\* C7: measurements hold at most one row per (station_id, date); an import
\* of a file that repeats a key among its valid rows succeeds and leaves one
\* row for the key, holding the values of the last such row.
C7_NaturalKey ==
    /\ UniqueKeys(meas)
    /\ (lastFile # 0 /\ lastFault = "none" /\ RepeatedKeys # {}) =>
          /\ resp.status = 200
          /\ \A k \in RepeatedKeys :
                /\ Cardinality(RowsWithKey(meas, k)) = 1
                /\ Values(RowFor(meas, k)) = Values(LastFor(LastValid, k))

----------------------------------------------------------------------------
(* The quality report (SpecQuality) *)

ReportedTable == IF report.table = "staging" THEN staging ELSE meas

IsQualityReport == report.kind = "quality" /\ report.status = 200

HasNumber(x) == x # None /\ x # NaN

\* C11: the report counts the rows with a temp_c below -60, above 60, a
\* precip_mm below 0 and above 500 (nulls in none of them), so that a staged
\* row is counted for a field exactly when the import rejected it as out of
\* range for that field.
C11_OutOfRangeCounts ==
    IsQualityReport =>
        LET qs == ReportedTable
            c == report.data.out_of_range_counts
            rows == 1..Len(qs)
            errors(i) == ValidateErrors(qs[i].date, qs[i].station_id,
                                        qs[i].temp_c, qs[i].precip_mm)
            \* a count the report leaves out is read as 0
            above500 == IF "precip_mm_gt_500" \in DOMAIN c
                        THEN c["precip_mm_gt_500"] ELSE 0
        IN  /\ c["temp_c_lt_-90"] =
                  Cardinality({i \in rows : HasNumber(qs[i].temp_c) /\ qs[i].temp_c < -60})
            /\ c["temp_c_gt_60"] =
                  Cardinality({i \in rows : HasNumber(qs[i].temp_c) /\ qs[i].temp_c > 60})
            /\ c["precip_mm_lt_0"] =
                  Cardinality({i \in rows : HasNumber(qs[i].precip_mm) /\ qs[i].precip_mm < 0})
            /\ above500 =
                  Cardinality({i \in rows : HasNumber(qs[i].precip_mm) /\ qs[i].precip_mm > 500})
            /\ report.table = "staging" =>
                  /\ c["temp_c_lt_-90"] + c["temp_c_gt_60"] =
                        Cardinality({i \in rows : "temp_c_out_of_range" \in errors(i)})
                  /\ c["precip_mm_lt_0"] + above500 =
                        Cardinality({i \in rows : "precip_mm_out_of_range" \in errors(i)})

\* C12: total_rows is the row count; null_counts[f] is the number of rows
\* whose f is null, at most total_rows; null_rates[f] is their quotient, 0
\* for an empty table; extra_duplicate_rows is total_rows less the number of
\* distinct (station_id, date) pairs, at least 0, and 0 for measurements.
C12_QualityCounts ==
    IsQualityReport =>
        LET qs == ReportedTable
            d == report.data
            rows == 1..Len(qs)
        IN  /\ d.total_rows = Len(qs)
            /\ \A f \in Fields :
                  /\ d.null_counts[f] =
                        Cardinality({i \in rows : IsNullIn(backend, qs[i], f)})
                  /\ d.null_counts[f] <= d.total_rows
                  /\ IF d.total_rows = 0 THEN d.null_rates[f] = Zero
                     ELSE /\ d.null_rates[f][2] > 0
                          /\ d.null_rates[f][1] * d.total_rows
                                = d.null_counts[f] * d.null_rates[f][2]
            /\ d.extra_duplicate_rows = d.total_rows - Cardinality(KeysOf(qs))
            /\ d.extra_duplicate_rows >= 0
            /\ report.table = "measurements" => d.extra_duplicate_rows = 0

C12_Witness ==
    /\ IsQualityReport
    /\ report.table = "staging"
    /\ report.data.total_rows = 3
    /\ report.data.extra_duplicate_rows = 1
    /\ report.data.null_counts["temp_c"] = 1
    /\ report.data.null_rates["station_id"] = <<1, 3>>
    /\ meas # <<>>

----------------------------------------------------------------------------
(* The summary (SpecSummary) *)

RECURSIVE TotalOf(_, _)
TotalOf(rows, field_name) ==
    IF rows = {} THEN 0
    ELSE LET i == CHOOSE j \in rows : TRUE
         IN  meas[i][field_name] + TotalOf(rows \ {i}, field_name)

\* The aggregate the summary is to return over the given measurements for
\* one column: "avg" or "sum" of the values the engine holds.
Expected(rows, field_name, what) ==
    LET held == {i \in rows : DbValue(backend, meas[i][field_name]) # None}
        total == IF held = {} THEN None
                 ELSE IF \E i \in held : meas[i][field_name] = NaN THEN NaN
                 ELSE TotalOf(held, field_name)
    IN  IF what = "sum" THEN total
        ELSE IF total \in {None, NaN} THEN <<total, 1>>
        ELSE <<total, Cardinality(held)>>

SameFraction(a, b) == a[2] > 0 /\ b[2] > 0 /\ a[1] * b[2] = b[1] * a[2]

\* C13: for a station_id and from <= to the summary returns the number of
\* measurements of that station dated from..to (both days included), the
\* average of their temp_c and the sum of their precip_mm, both null when
\* no row matches; from > to is answered 400.
C13_Summary ==
    report.kind = "summary" =>
        LET station == Strip(IF report.request.station_id = NoneStr THEN <<>>
                             ELSE report.request.station_id)
            from == _parse_iso_date(report.request.from)
            to == _parse_iso_date(report.request.to)
            rows == {i \in 1..Len(meas) :
                        /\ meas[i].station_id = station
                        /\ from <= meas[i].date
                        /\ meas[i].date <= to}
            avg == Expected(rows, "temp_c", "avg")
        IN  (station # <<>> /\ from # None /\ to # None) =>
                IF from > to THEN report.status = 400
                ELSE /\ report.status = 200
                     /\ report.days = Cardinality(rows)
                     /\ rows = {} =>
                           /\ report.avg_temp_c = <<None, 1>>
                           /\ report.total_precip_mm = None
                     /\ SameFraction(report.avg_temp_c, avg)
                     /\ report.total_precip_mm = Expected(rows, "precip_mm", "sum")

\* Scenario C: temps 10, 20, 30 and precip 1, 2, 3 of STATION_A on
\* 2026-01-01..03, next to measurements of another station.
C13_Witness ==
    /\ report.kind = "summary"
    /\ report.status = 200
    /\ report.station_id = Txt_StationA
    /\ report.from = Txt_0101
    /\ report.to = Txt_0103
    /\ report.days = 3
    /\ report.avg_temp_c = <<20, 1>>
    /\ report.total_precip_mm = 6
    /\ Len(meas) = 4

----------------------------------------------------------------------------
(* Row timestamps (Spec) *)

\* C14: after a successful import with a valid row for a key that
\* measurements already held, the row's updated_at is the time of this
\* import and its created_at is still the earlier time of its creation.
C14_UpdatedAtRefreshed ==
    resp.status = 200 =>
        \A k \in KeysOf(LastValid) :
            HasKey(measBefore, k) =>
                /\ stamps[k].updated_at = "latest"
                /\ stamps[k].created_at = "earlier"

----------------------------------------------------------------------------
(* Rejected uploads (SpecUpload) *)

\* C15: an import request without the file field, with bytes that are not
\* UTF-8, or with a header lacking a required column is answered 400 with
\* an error, and both tables stay as they were.
C15_RejectedUploads ==
    [][(~upload'.has_file \/ ~upload'.utf8 \/ upload'.columns # required)
         => /\ resp'.status = 400
            /\ "error" \in DOMAIN resp'
            /\ staging' = staging
            /\ meas' = meas]_vars

C15_Witness ==
    /\ resp.status = 400
    /\ upload.has_file /\ upload.utf8
    /\ upload.columns = required \ {"temp_c"}
    /\ staging # <<>>
    /\ meas # <<>>

----------------------------------------------------------------------------
(* What an import leaves alone (Spec) *)

\* C16: after any import, of any file and whether it succeeded or not,
\* every key that measurements held before is still there, and every row
\* whose key is not among the file's valid rows has the temp_c and
\* precip_mm it had.
C16_NeverDeletes ==
    lastFile # 0 =>
        /\ KeysOf(measBefore) \subseteq KeysOf(meas)
        /\ \A i \in 1..Len(measBefore) :
              Key(measBefore[i]) \notin KeysOf(LastValid) =>
                  \E j \in 1..Len(meas) : meas[j] = measBefore[i]

\* An import overwrote one key and left another, which its file does not
\* name, alone.
C16_Witness ==
    /\ lastFile # 0
    /\ resp.status = 200
    /\ \E k \in KeysOf(measBefore) : k \notin KeysOf(LastValid)
    /\ \E k \in KeysOf(measBefore) \cap KeysOf(LastValid) :
          Values(RowFor(meas, k)) # Values(RowFor(measBefore, k))

----------------------------------------------------------------------------
(* Storage failures (SpecFault) *)

\* C8: an import that fails inside the transaction leaves both tables as
\* they were before it began.
C8_AllOrNothing ==
    [][resp'.status = 500 => (staging' = staging /\ meas' = meas)]_vars

C8_Witness ==
    /\ resp.status = 500
    /\ lastFault = "bulk_create_measurements"
    /\ staging # <<>>
    /\ staging # StagingRows(lastFile)
    /\ meas # <<>>
    /\ meas # BulkUpsert(meas, LastValid)

----------------------------------------------------------------------------
(* Overlapping imports (SpecConc) *)

Begun == {t \in Importers : txn[t].pc # "idle"}

ValidOf(t) == ValidRows(txn[t].file)

\* Measurements with whole imports applied, in either order.
WholeImports ==
    {origin.meas}
    \cup {BulkUpsert(origin.meas, ValidOf(t)) : t \in Begun}
    \cup {BulkUpsert(BulkUpsert(origin.meas, ValidOf(t)), ValidOf(u)) :
            t \in Begun, u \in Begun}

StagingOfOneImport == readLog.staging \in {StagingRows(txn[t].file) : t \in Begun}

\* C9: every read returns a staging table that is the initial one or the
\* complete batch of exactly one import, and measurements with each
\* import's valid rows applied entirely or not at all.
C9_NoPartialState ==
    /\ readLog.staging = origin.staging \/ StagingOfOneImport
    /\ readLog.meas \in WholeImports

BothCommitted == Len(commits) = 2

Overlap == KeysOf(ValidOf("i1")) \cap KeysOf(ValidOf("i2"))

\* C10 as stated: two overlapping imports with a common key both complete,
\* and once both have committed every common key has one row, holding the
\* values of the import that committed last.
C10_Original ==
    (/\ Begun = Importers
     /\ Overlap # {}
     /\ \A t \in Importers : ~UpsertRaises(backend, ValidOf(t)))
    => /\ \A t \in Importers : txn[t].pc # "failed"
       /\ BothCommitted =>
             \A k \in Overlap :
                /\ Cardinality(RowsWithKey(meas, k)) = 1
                /\ Values(RowFor(meas, k)) = Values(LastFor(ValidOf(commits[2]), k))

\* C10 amended: once both overlapping imports have committed, every common
\* key has one row, holding the values of the import that committed last
\* (an import may instead be ended by the database: see DeadlockDetected).
C10_LastCommittedWins ==
    BothCommitted =>
        \A k \in Overlap :
            /\ Cardinality(RowsWithKey(meas, k)) = 1
            /\ Values(RowFor(meas, k)) = Values(LastFor(ValidOf(commits[2]), k))

\* Both imports took their delete snapshot before either committed, wrote a
\* common key with different values, and committed.
C10_Witness ==
    /\ BothCommitted
    /\ backend = "postgresql"
    /\ txn["i1"].targets = txn["i2"].targets
    /\ txn["i1"].targets # {}
    /\ \E k \in Overlap :
          Values(LastFor(ValidOf("i1"), k)) # Values(LastFor(ValidOf("i2"), k))

====
